---- MODULE Spec2Model ----
(***************************************************************************)
(* Model of components/ordhook-core/src/config/mod.rs: the canonical       *)
(* Config aggregate, its three profile constructors and its derivation     *)
(* methods.  One process constructs a Config (through a profile            *)
(* constructor or a struct literal handed over by a loader) and then calls *)
(* the accessors in any order; an unreachable!() or a failed expect()      *)
(* halts the process.                                                      *)
(*                                                                         *)
(* Strings that are only concatenated (URLs) are TLA+ strings; strings     *)
(* that are used as filesystem paths are sequences of one-character        *)
(* strings, so that PathBuf::push can be modelled byte by byte.            *)
(***************************************************************************)
EXTENDS Integers, Sequences, FiniteSets, TLC

VARIABLES pc, origin, host, cfg, call, ret

vars == <<pc, origin, host, cfg, call, ret>>

----------------------------------------------------------------------------
(* Bounds of the model *)

MaxCores == 5

MaxPathLen == 2

----------------------------------------------------------------------------
(* Program constants *)

DEFAULT_MAINNET_ORDINALS_SQLITE_ARCHIVE ==
    "https://archive.hiro.so/mainnet/ordhook/mainnet-ordhook-sqlite-latest"

DEFAULT_INGESTION_PORT == 20455

DEFAULT_ULIMIT == 2048

DEFAULT_MEMORY_AVAILABLE == 8

DEFAULT_BITCOIND_RPC_THREADS == 4

DEFAULT_BITCOIND_RPC_TIMEOUT == 15

----------------------------------------------------------------------------
(* Outcome of a call: a returned value, or a panic that returns nothing *)

Ok(v) == [panic |-> FALSE, val |-> v]

Panicked == [panic |-> TRUE]

----------------------------------------------------------------------------
(* Types *)

BitcoinNetwork == {"Mainnet", "Regtest", "Testnet", "Signet"}

Build == [tag |-> "Build"]

Download(url) == [tag |-> "Download", url |-> url]

Off == [tag |-> "Off"]

On(config) == [tag |-> "On", config |-> config]

PredicatesApiConfig(port, logs) == [http_port |-> port, display_logs |-> logs]

Stacks(node) == [tag |-> "Stacks", node |-> node]

\* chainhook_sdk's StacksNodeConfig::default_localhost, kept as the
\* constructor applied to its argument
default_localhost(port) == [ctor |-> "default_localhost", ingestion_port |-> port]

----------------------------------------------------------------------------
(* std::path::PathBuf on a Unix target, byte by byte *)

PathChars == {"/", "a"}

RECURSIVE PathsUpTo(_)
PathsUpTo(n) ==
    IF n = 0 THEN {<<>>}
    ELSE LET shorter == PathsUpTo(n - 1)
         IN  shorter \cup {Append(p, ch) : p \in {q \in shorter : Len(q) = n - 1},
                                           ch \in PathChars}

is_absolute(p) == Len(p) > 0 /\ p[1] = "/"

PathBuf_new == <<>>

PathBuf_push(buf, p) ==
    LET need_sep == Len(buf) > 0 /\ buf[Len(buf)] # "/"
    IN  IF is_absolute(p) THEN p
        ELSE IF need_sep THEN buf \o <<"/">> \o p
        ELSE buf \o p

\* PathBuf::from(String): the same bytes, viewed as a path
PathBuf_from(s) == s

\* format!("{}", path.display()) of a UTF-8 path: the same bytes
display(p) == p

----------------------------------------------------------------------------
(* The environment a profile constructor reads *)

CwdOk(p) == [ok |-> TRUE, path |-> p]

CwdErr == [ok |-> FALSE]

CurrentDirs == {CwdOk(<<"/">>), CwdOk(<<"/", "a">>), CwdErr}

Hosts == [cwd : CurrentDirs, cpus : 1..MaxCores]

NotQueried == [cwd |-> CwdErr, cpus |-> 0]

----------------------------------------------------------------------------
(* ResourcesConfig *)

Max(a, b) == IF a >= b THEN a ELSE b

saturating_sub(a, b) == IF a < b THEN 0 ELSE a - b

\* Variant: the floor is 0 instead of 1
get_optimal_thread_pool_capacity_floor0(resources) ==
    Max(saturating_sub(resources.cpu_core_available, 2), 0)

get_optimal_thread_pool_capacity(resources) ==
    Max(saturating_sub(resources.cpu_core_available, 2), 1)

----------------------------------------------------------------------------
(* Config accessors and derivations *)

\* Variant: the two match arms exchanged
is_http_api_enabled_inverted(c) ==
    IF c.http_api.tag = "Off" THEN TRUE ELSE FALSE

is_http_api_enabled(c) ==
    IF c.http_api.tag = "Off" THEN FALSE ELSE TRUE

\* Variant: the path is pushed onto the root instead of an empty PathBuf
expected_cache_path_sep(c) ==
    PathBuf_push(<<"/">>, c.storage.working_dir)

expected_cache_path(c) ==
    PathBuf_push(PathBuf_new, c.storage.working_dir)

\* Variant: the Testnet and Signet heights exchanged
first_inscription_height_swapped(network) ==
    CASE network = "Mainnet" -> 767430
      [] network = "Regtest" -> 1
      [] network = "Testnet" -> 112402
      [] network = "Signet"  -> 2413343

first_inscription_height(network) ==
    CASE network = "Mainnet" -> 767430
      [] network = "Regtest" -> 1
      [] network = "Testnet" -> 2413343
      [] network = "Signet"  -> 112402

get_ordhook_config(c) ==
    [resources |-> c.resources,
     db_path |-> expected_cache_path(c),
     first_inscription_height |-> first_inscription_height(c.network.bitcoin_network),
     logs |-> c.logs]

\* Variant: display_logs follows logs.chainhook_internals
get_event_observer_config_logs(c) ==
    [bitcoin_rpc_proxy_enabled |-> TRUE,
     chainhook_config |-> "None",
     ingestion_port |-> DEFAULT_INGESTION_PORT,
     bitcoind_rpc_username |-> c.network.bitcoind_rpc_username,
     bitcoind_rpc_password |-> c.network.bitcoind_rpc_password,
     bitcoind_rpc_url |-> c.network.bitcoind_rpc_url,
     bitcoin_block_signaling |-> c.network.bitcoin_block_signaling,
     display_logs |-> c.logs.chainhook_internals,
     cache_path |-> c.storage.working_dir,
     bitcoin_network |-> c.network.bitcoin_network,
     stacks_network |-> c.network.stacks_network,
     data_handler_tx |-> "None"]

get_event_observer_config(c) ==
    [bitcoin_rpc_proxy_enabled |-> TRUE,
     chainhook_config |-> "None",
     ingestion_port |-> DEFAULT_INGESTION_PORT,
     bitcoind_rpc_username |-> c.network.bitcoind_rpc_username,
     bitcoind_rpc_password |-> c.network.bitcoind_rpc_password,
     bitcoind_rpc_url |-> c.network.bitcoind_rpc_url,
     bitcoin_block_signaling |-> c.network.bitcoin_block_signaling,
     display_logs |-> FALSE,
     cache_path |-> c.storage.working_dir,
     bitcoin_network |-> c.network.bitcoin_network,
     stacks_network |-> c.network.stacks_network,
     data_handler_tx |-> "None"]

should_bootstrap_through_download(c) ==
    IF c.snapshot.tag = "Build" THEN FALSE ELSE TRUE

\* Variant: a default is returned on Off instead of unreachable!()
expected_api_config_default(c) ==
    IF c.http_api.tag = "On" THEN Ok(c.http_api.config)
    ELSE Ok(PredicatesApiConfig(0, FALSE))

expected_api_config(c) ==
    IF c.http_api.tag = "On" THEN Ok(c.http_api.config)
    ELSE Panicked

expected_remote_ordinals_sqlite_base_url(c) ==
    IF c.snapshot.tag = "Build" THEN Panicked
    ELSE Ok(c.snapshot.url)

expected_remote_ordinals_sqlite_sha256(c) ==
    LET base == expected_remote_ordinals_sqlite_base_url(c)
    IN  IF base.panic THEN Panicked ELSE Ok(base.val \o ".sha256")

\* Variant: another archive suffix
expected_remote_ordinals_sqlite_url_tgz(c) ==
    LET base == expected_remote_ordinals_sqlite_base_url(c)
    IN  IF base.panic THEN Panicked ELSE Ok(base.val \o ".tgz")

expected_remote_ordinals_sqlite_url(c) ==
    LET base == expected_remote_ordinals_sqlite_base_url(c)
    IN  IF base.panic THEN Panicked ELSE Ok(base.val \o ".tar.gz")

----------------------------------------------------------------------------
(* Profile constructors *)

\* Variant: a relative "ordhook" when current_dir() fails, instead of expect()
default_cache_path_or_default(h) ==
    IF h.cwd.ok
    THEN Ok(display(PathBuf_push(h.cwd.path, <<"o", "r", "d", "h", "o", "o", "k">>)))
    ELSE Ok(display(PathBuf_push(PathBuf_new, <<"o", "r", "d", "h", "o", "o", "k">>)))

default_cache_path(h) ==
    IF h.cwd.ok
    THEN Ok(display(PathBuf_push(h.cwd.path, <<"o", "r", "d", "h", "o", "o", "k">>)))
    ELSE Panicked

DefaultResources(h) ==
    [cpu_core_available |-> h.cpus,
     memory_available |-> DEFAULT_MEMORY_AVAILABLE,
     ulimit |-> DEFAULT_ULIMIT,
     bitcoind_rpc_threads |-> DEFAULT_BITCOIND_RPC_THREADS,
     bitcoind_rpc_timeout |-> DEFAULT_BITCOIND_RPC_TIMEOUT,
     expected_observers_count |-> 1]

devnet_default(h) ==
    LET working_dir == default_cache_path(h)
    IN  IF working_dir.panic THEN Panicked
        ELSE Ok([storage |-> [working_dir |-> working_dir.val],
                 http_api |-> Off,
                 snapshot |-> Build,
                 resources |-> DefaultResources(h),
                 network |-> [bitcoind_rpc_url |-> "http://0.0.0.0:18443",
                              bitcoind_rpc_username |-> "devnet",
                              bitcoind_rpc_password |-> "devnet",
                              bitcoin_block_signaling |->
                                  Stacks(default_localhost(DEFAULT_INGESTION_PORT)),
                              stacks_network |-> "Devnet",
                              bitcoin_network |-> "Regtest"],
                 logs |-> [ordinals_internals |-> TRUE,
                           chainhook_internals |-> FALSE]])

testnet_default(h) ==
    LET working_dir == default_cache_path(h)
    IN  IF working_dir.panic THEN Panicked
        ELSE Ok([storage |-> [working_dir |-> working_dir.val],
                 http_api |-> Off,
                 snapshot |-> Build,
                 resources |-> DefaultResources(h),
                 network |-> [bitcoind_rpc_url |-> "http://0.0.0.0:18332",
                              bitcoind_rpc_username |-> "devnet",
                              bitcoind_rpc_password |-> "devnet",
                              bitcoin_block_signaling |->
                                  Stacks(default_localhost(DEFAULT_INGESTION_PORT)),
                              stacks_network |-> "Testnet",
                              bitcoin_network |-> "Testnet"],
                 logs |-> [ordinals_internals |-> TRUE,
                           chainhook_internals |-> FALSE]])

\* Variant: mainnet bootstraps through Build
mainnet_default_build(h) ==
    LET working_dir == default_cache_path(h)
    IN  IF working_dir.panic THEN Panicked
        ELSE Ok([storage |-> [working_dir |-> working_dir.val],
                 http_api |-> Off,
                 snapshot |-> Build,
                 resources |-> DefaultResources(h),
                 network |-> [bitcoind_rpc_url |-> "http://0.0.0.0:8332",
                              bitcoind_rpc_username |-> "devnet",
                              bitcoind_rpc_password |-> "devnet",
                              bitcoin_block_signaling |->
                                  Stacks(default_localhost(DEFAULT_INGESTION_PORT)),
                              stacks_network |-> "Mainnet",
                              bitcoin_network |-> "Mainnet"],
                 logs |-> [ordinals_internals |-> TRUE,
                           chainhook_internals |-> FALSE]])

\* Variant: mainnet enables chainhook_internals logging
mainnet_default_logs(h) ==
    LET working_dir == default_cache_path(h)
    IN  IF working_dir.panic THEN Panicked
        ELSE Ok([storage |-> [working_dir |-> working_dir.val],
                 http_api |-> Off,
                 snapshot |-> Download(DEFAULT_MAINNET_ORDINALS_SQLITE_ARCHIVE),
                 resources |-> DefaultResources(h),
                 network |-> [bitcoind_rpc_url |-> "http://0.0.0.0:8332",
                              bitcoind_rpc_username |-> "devnet",
                              bitcoind_rpc_password |-> "devnet",
                              bitcoin_block_signaling |->
                                  Stacks(default_localhost(DEFAULT_INGESTION_PORT)),
                              stacks_network |-> "Mainnet",
                              bitcoin_network |-> "Mainnet"],
                 logs |-> [ordinals_internals |-> TRUE,
                           chainhook_internals |-> TRUE]])

mainnet_default(h) ==
    LET working_dir == default_cache_path(h)
    IN  IF working_dir.panic THEN Panicked
        ELSE Ok([storage |-> [working_dir |-> working_dir.val],
                 http_api |-> Off,
                 snapshot |-> Download(DEFAULT_MAINNET_ORDINALS_SQLITE_ARCHIVE),
                 resources |-> DefaultResources(h),
                 network |-> [bitcoind_rpc_url |-> "http://0.0.0.0:8332",
                              bitcoind_rpc_username |-> "devnet",
                              bitcoind_rpc_password |-> "devnet",
                              bitcoin_block_signaling |->
                                  Stacks(default_localhost(DEFAULT_INGESTION_PORT)),
                              stacks_network |-> "Mainnet",
                              bitcoin_network |-> "Mainnet"],
                 logs |-> [ordinals_internals |-> TRUE,
                           chainhook_internals |-> FALSE]])

----------------------------------------------------------------------------
(* Config values a loader can hand over as a struct literal *)

LoaderUrls == {"https://example.test/archive", ""}

LoaderPorts == {0, 20456}

LoaderConfigs ==
    [storage : [working_dir : PathsUpTo(MaxPathLen)],
     http_api : {Off} \cup {On(PredicatesApiConfig(p, l)) : p \in LoaderPorts, l \in BOOLEAN},
     snapshot : {Build} \cup {Download(u) : u \in LoaderUrls},
     resources : [cpu_core_available : 0..MaxCores,
                  memory_available : {DEFAULT_MEMORY_AVAILABLE},
                  ulimit : {DEFAULT_ULIMIT},
                  bitcoind_rpc_threads : {DEFAULT_BITCOIND_RPC_THREADS},
                  bitcoind_rpc_timeout : {DEFAULT_BITCOIND_RPC_TIMEOUT},
                  expected_observers_count : {1}],
     network : [bitcoind_rpc_url : {"http://localhost:8332"},
                bitcoind_rpc_username : {"user"},
                bitcoind_rpc_password : {"pass"},
                bitcoin_block_signaling : {Stacks(default_localhost(DEFAULT_INGESTION_PORT))},
                stacks_network : {"Mainnet"},
                bitcoin_network : BitcoinNetwork],
     logs : [ordinals_internals : BOOLEAN, chainhook_internals : BOOLEAN]]

----------------------------------------------------------------------------
(* The process *)

NoConfig == [none |-> TRUE]

Unit == Ok(<<>>)

Init ==
    /\ pc = "start"
    /\ origin = "none"
    /\ host = NotQueried
    /\ cfg = NoConfig
    /\ call = "none"
    /\ ret = Unit

\* A constructor ran in environment h with outcome r
Constructed(name, h, r) ==
    /\ origin' = name
    /\ host' = h
    /\ call' = name
    /\ ret' = r
    /\ IF r.panic
       THEN pc' = "panicked" /\ cfg' = cfg
       ELSE pc' = "ready" /\ cfg' = r.val

DevnetDefault ==
    /\ pc = "start"
    /\ \E h \in Hosts : Constructed("devnet_default", h, devnet_default(h))

TestnetDefault ==
    /\ pc = "start"
    /\ \E h \in Hosts : Constructed("testnet_default", h, testnet_default(h))

MainnetDefault ==
    /\ pc = "start"
    /\ \E h \in Hosts : Constructed("mainnet_default", h, mainnet_default(h))

Load ==
    /\ pc = "start"
    /\ \E c \in LoaderConfigs : Constructed("loader", NotQueried, Ok(c))

\* An accessor ran on the constructed Config with outcome r
Called(name, r) ==
    /\ pc = "ready"
    /\ call' = name
    /\ ret' = r
    /\ pc' = IF r.panic THEN "panicked" ELSE "ready"
    /\ UNCHANGED <<origin, host, cfg>>

GetOptimalThreadPoolCapacity ==
    Called("get_optimal_thread_pool_capacity",
           Ok(get_optimal_thread_pool_capacity(cfg.resources)))

IsHttpApiEnabled == Called("is_http_api_enabled", Ok(is_http_api_enabled(cfg)))

GetOrdhookConfig == Called("get_ordhook_config", Ok(get_ordhook_config(cfg)))

GetEventObserverConfig ==
    Called("get_event_observer_config", Ok(get_event_observer_config(cfg)))

ShouldBootstrapThroughDownload ==
    Called("should_bootstrap_through_download", Ok(should_bootstrap_through_download(cfg)))

ExpectedApiConfig == Called("expected_api_config", expected_api_config(cfg))

ExpectedCachePath == Called("expected_cache_path", Ok(expected_cache_path(cfg)))

ExpectedRemoteOrdinalsSqliteSha256 ==
    Called("expected_remote_ordinals_sqlite_sha256",
           expected_remote_ordinals_sqlite_sha256(cfg))

ExpectedRemoteOrdinalsSqliteUrl ==
    Called("expected_remote_ordinals_sqlite_url",
           expected_remote_ordinals_sqlite_url(cfg))

Next ==
    \/ DevnetDefault
    \/ TestnetDefault
    \/ MainnetDefault
    \/ Load
    \/ GetOptimalThreadPoolCapacity
    \/ IsHttpApiEnabled
    \/ GetOrdhookConfig
    \/ GetEventObserverConfig
    \/ ShouldBootstrapThroughDownload
    \/ ExpectedApiConfig
    \/ ExpectedCachePath
    \/ ExpectedRemoteOrdinalsSqliteSha256
    \/ ExpectedRemoteOrdinalsSqliteUrl

Spec == Init /\ [][Next]_vars

Profiles == {"devnet_default", "testnet_default", "mainnet_default"}

----------------------------------------------------------------------------
(* Properties *)

HasConfig == cfg # NoConfig

UrlAccessors ==
    {"expected_remote_ordinals_sqlite_url", "expected_remote_ordinals_sqlite_sha256"}

\* C1: a variant-specific accessor called on the wrong variant halts the
\* process and returns nothing: the two URL accessors on a Build snapshot,
\* and expected_api_config on an Off gate.
C1_WrongVariantIsFatal ==
    /\ (call \in UrlAccessors /\ cfg.snapshot.tag = "Build")
          => (pc = "panicked" /\ ret = Panicked)
    /\ (call = "expected_api_config" /\ cfg.http_api.tag = "Off")
          => (pc = "panicked" /\ ret = Panicked)

C1_Witness ==
    /\ call = "expected_api_config"
    /\ cfg.http_api.tag = "Off"
    /\ pc = "panicked"

\* C2: mainnet_default yields Download of the fixed archive base URL and
\* answers should_bootstrap_through_download() with true; devnet_default and
\* testnet_default yield Build and answer false.
C2_ProfileSnapshot ==
    /\ (origin = "mainnet_default" /\ HasConfig) =>
          /\ cfg.snapshot = Download(
                 "https://archive.hiro.so/mainnet/ordhook/mainnet-ordhook-sqlite-latest")
          /\ call = "should_bootstrap_through_download" => ret.val = TRUE
    /\ (origin \in {"devnet_default", "testnet_default"} /\ HasConfig) =>
          /\ cfg.snapshot = Build
          /\ call = "should_bootstrap_through_download" => ret.val = FALSE

C2_Witness ==
    /\ origin = "mainnet_default"
    /\ call = "should_bootstrap_through_download"
    /\ ret.val = TRUE

ActivationHeight ==
    [n \in BitcoinNetwork |->
        IF n = "Mainnet" THEN 767430
        ELSE IF n = "Regtest" THEN 1
        ELSE IF n = "Testnet" THEN 2413343
        ELSE 112402]

\* C3: get_ordhook_config().first_inscription_height depends on the bitcoin
\* network alone (Mainnet 767430, Regtest 1, Testnet 2413343, Signet 112402,
\* pairwise distinct), and each profile reports the height of its own network
\* (devnet 1, testnet 2413343, mainnet 767430).
C3_ActivationHeight ==
    call = "get_ordhook_config" =>
        /\ ret.val.first_inscription_height = ActivationHeight[cfg.network.bitcoin_network]
        /\ \A m \in BitcoinNetwork :
              m # cfg.network.bitcoin_network
                 => ActivationHeight[m] # ret.val.first_inscription_height
        /\ origin = "devnet_default" => ret.val.first_inscription_height = 1
        /\ origin = "testnet_default" => ret.val.first_inscription_height = 2413343
        /\ origin = "mainnet_default" => ret.val.first_inscription_height = 767430

C3_Witness ==
    /\ call = "get_ordhook_config"
    /\ cfg.network.bitcoin_network = "Signet"
    /\ ret.val.first_inscription_height = 112402

\* C4: get_optimal_thread_pool_capacity returns max(cpu_core_available - 2, 1)
\* for every count from 0 up: it returns normally, never 0, 1 for the counts
\* 0, 1, 2 and 3, and the count minus 2 from 3 up.
C4_ThreadPoolCapacity ==
    call = "get_optimal_thread_pool_capacity" =>
        LET n == cfg.resources.cpu_core_available
        IN  /\ pc = "ready"
            /\ ~ret.panic
            /\ ret.val = (IF n - 2 >= 1 THEN n - 2 ELSE 1)
            /\ ret.val # 0
            /\ n \in {0, 1, 2, 3} => ret.val = 1
            /\ n >= 3 => ret.val = n - 2

C4_Witness ==
    /\ call = "get_optimal_thread_pool_capacity"
    /\ cfg.resources.cpu_core_available = 0
    /\ ret.val = 1

\* C5: should_bootstrap_through_download() is true iff the snapshot is
\* Download; on Download(base) the URL accessors return base followed by
\* ".tar.gz" and by ".sha256", and never halt once
\* should_bootstrap_through_download() has answered true.
C5_DownloadUrls ==
    /\ call = "should_bootstrap_through_download" =>
          (ret.val <=> cfg.snapshot.tag = "Download")
    /\ (call = "expected_remote_ordinals_sqlite_url" /\ cfg.snapshot.tag = "Download") =>
          /\ ret = Ok(cfg.snapshot.url \o ".tar.gz")
          /\ cfg.snapshot.url = "https://example.test/archive"
                => ret.val = "https://example.test/archive.tar.gz"
    /\ (call = "expected_remote_ordinals_sqlite_sha256" /\ cfg.snapshot.tag = "Download") =>
          /\ ret = Ok(cfg.snapshot.url \o ".sha256")
          /\ cfg.snapshot.url = "https://example.test/archive"
                => ret.val = "https://example.test/archive.sha256"
    /\ (call \in UrlAccessors /\ should_bootstrap_through_download(cfg)) =>
          pc = "ready"

C5_Witness ==
    /\ call = "expected_remote_ordinals_sqlite_url"
    /\ cfg.snapshot.tag = "Download"
    /\ ret = Ok("https://example.test/archive.tar.gz")

\* C6: is_http_api_enabled() is false on Off and true on On(c); on On(c)
\* expected_api_config() returns exactly c, and never halts once
\* is_http_api_enabled() has answered true.
C6_ApiGate ==
    /\ call = "is_http_api_enabled" =>
          (ret.val <=> cfg.http_api.tag = "On")
    /\ (call = "expected_api_config" /\ cfg.http_api.tag = "On") =>
          /\ ret = Ok(cfg.http_api.config)
          /\ ret.val.http_port = cfg.http_api.config.http_port
          /\ ret.val.display_logs = cfg.http_api.config.display_logs
    /\ (call = "expected_api_config" /\ is_http_api_enabled(cfg)) =>
          pc = "ready"

C6_Witness ==
    /\ call = "expected_api_config"
    /\ cfg.http_api.tag = "On"
    /\ ret.val = PredicatesApiConfig(20456, TRUE)

ConfigFields == {"storage", "http_api", "resources", "network", "snapshot", "logs"}

\* C7 as stated: a profile constructor returns a Config in every environment
\* and never halts.
C7_AlwaysReturns ==
    call \in Profiles => (pc = "ready" /\ ~ret.panic /\ HasConfig)

\* C7 as amended: a profile constructor returns a fully populated Config
\* exactly when the current directory can be read, with working_dir the
\* current directory extended by "ordhook" and cpu_core_available the host's
\* core count; when the current directory cannot be read it halts and
\* returns no Config.
C7_ReturnsIffCwdReadable ==
    call \in Profiles =>
        /\ ret.panic <=> ~host.cwd.ok
        /\ ret.panic => (pc = "panicked" /\ ~HasConfig)
        /\ ~ret.panic =>
              /\ pc = "ready"
              /\ cfg = ret.val
              /\ DOMAIN cfg = ConfigFields
              /\ cfg.storage.working_dir =
                    (IF host.cwd.path = <<"/">> THEN <<>> ELSE host.cwd.path)
                       \o <<"/", "o", "r", "d", "h", "o", "o", "k">>
              /\ cfg.resources.cpu_core_available = host.cpus

C7_Witness ==
    /\ call \in Profiles
    /\ host.cwd.ok
    /\ pc = "ready"
    /\ HasConfig

\* C8: get_event_observer_config() returns display_logs = false,
\* bitcoin_rpc_proxy_enabled = true, ingestion_port = 20455 and no chain-hook
\* configuration, whatever the log toggles and the http_api settings are.
C8_ObserverOverrides ==
    call = "get_event_observer_config" =>
        /\ ret.val.display_logs = FALSE
        /\ ret.val.bitcoin_rpc_proxy_enabled = TRUE
        /\ ret.val.ingestion_port = 20455
        /\ ret.val.chainhook_config = "None"

C8_Witness ==
    /\ call = "get_event_observer_config"
    /\ cfg.http_api.tag = "On"
    /\ cfg.http_api.config.display_logs
    /\ cfg.logs.ordinals_internals
    /\ cfg.logs.chainhook_internals
    /\ ret.val.display_logs = FALSE

\* What the three profiles have in common, with the RPC endpoint, the network
\* variants and the snapshot strategy blanked out
ProfileCommon(h) ==
    [storage |-> [working_dir |->
        (IF h.cwd.path = <<"/">> THEN <<>> ELSE h.cwd.path)
           \o <<"/", "o", "r", "d", "h", "o", "o", "k">>],
     http_api |-> [tag |-> "Off"],
     snapshot |-> "-",
     resources |-> [cpu_core_available |-> h.cpus,
                    memory_available |-> 8,
                    ulimit |-> 2048,
                    bitcoind_rpc_threads |-> 4,
                    bitcoind_rpc_timeout |-> 15,
                    expected_observers_count |-> 1],
     network |-> [bitcoind_rpc_url |-> "-",
                  bitcoind_rpc_username |-> "devnet",
                  bitcoind_rpc_password |-> "devnet",
                  bitcoin_block_signaling |->
                      [tag |-> "Stacks",
                       node |-> [ctor |-> "default_localhost", ingestion_port |-> 20455]],
                  stacks_network |-> "-",
                  bitcoin_network |-> "-"],
     logs |-> [ordinals_internals |-> TRUE, chainhook_internals |-> FALSE]]

\* C9: every Config a profile constructor returns has http_api = Off (so
\* is_http_api_enabled() is false and expected_api_config() halts),
\* expected_observers_count = 1, bitcoind_rpc_threads = 4,
\* bitcoind_rpc_timeout = 15, ordinals_internals = true,
\* chainhook_internals = false and Stacks block signaling built from port
\* 20455; the profiles differ only in RPC endpoint, network variants and
\* snapshot strategy.
C9_ProfileDefaults ==
    (origin \in Profiles /\ HasConfig) =>
        /\ cfg.http_api = Off
        /\ call = "is_http_api_enabled" => ret.val = FALSE
        /\ call = "expected_api_config" => pc = "panicked"
        /\ cfg.resources.expected_observers_count = 1
        /\ cfg.resources.bitcoind_rpc_threads = 4
        /\ cfg.resources.bitcoind_rpc_timeout = 15
        /\ cfg.logs.ordinals_internals = TRUE
        /\ cfg.logs.chainhook_internals = FALSE
        /\ cfg.network.bitcoin_block_signaling.tag = "Stacks"
        /\ cfg.network.bitcoin_block_signaling.node.ingestion_port = 20455
        /\ [cfg EXCEPT !.snapshot = "-",
                       !.network.bitcoind_rpc_url = "-",
                       !.network.stacks_network = "-",
                       !.network.bitcoin_network = "-"] = ProfileCommon(host)

C9_Witness ==
    /\ origin = "testnet_default"
    /\ call = "expected_api_config"
    /\ pc = "panicked"

\* C10: every derivation hands out the same storage path, the one that
\* storage.working_dir names: get_ordhook_config().db_path equals
\* expected_cache_path(), and get_event_observer_config().cache_path names
\* that path too.
C10_SinglePath ==
    /\ call = "expected_cache_path" =>
          ret.val = PathBuf_from(cfg.storage.working_dir)
    /\ call = "get_ordhook_config" =>
          /\ ret.val.db_path = expected_cache_path(cfg)
          /\ ret.val.db_path = PathBuf_from(get_event_observer_config(cfg).cache_path)
    /\ call = "get_event_observer_config" =>
          /\ PathBuf_from(ret.val.cache_path) = expected_cache_path(cfg)
          /\ PathBuf_from(ret.val.cache_path) = get_ordhook_config(cfg).db_path

C10_Witness ==
    /\ call = "get_event_observer_config"
    /\ cfg.storage.working_dir = <<"a", "/">>
    /\ ret.val.cache_path = <<"a", "/">>

====
